---- MODULE Spec2Model ----
(***************************************************************************)
(* Model of dcgmi_tui (src/src/main.rs): the telemetry line parser, the    *)
(* per-metric rolling history, the tick-gated render loop with its quit    *)
(* poll, and the logger thread behind an mpsc channel.                     *)
(*                                                                         *)
(* Text is modelled at the character level: a line or a token is a         *)
(* sequence of one-character strings.  An f64 is a record [cls, v]: cls is *)
(* "fin", "nan" or "inf"; for a finite value v is the number in            *)
(* thousandths (Scale), for an infinity v is its sign.                     *)
(***************************************************************************)
EXTENDS Integers, Sequences, FiniteSets, TLC

\* ------------------------------------------------------------------ text

Digits == <<"0", "1", "2", "3", "4", "5", "6", "7", "8", "9">>

IsDigit(c) == \E d \in 1..10 : Digits[d] = c

DigitVal(c) == (CHOOSE d \in 1..10 : Digits[d] = c) - 1

\* char::is_whitespace, for the characters the input lines are built from
IsWhitespace(c) == c \in {" ", "\t"}

\* to_ascii_lowercase, for the letters of the words "inf", "infinity", "nan"
Lower(c) ==
    CASE c = "I" -> "i"
      [] c = "N" -> "n"
      [] c = "F" -> "f"
      [] c = "A" -> "a"
      [] c = "T" -> "t"
      [] c = "Y" -> "y"
      [] OTHER -> c

LowerAll(s) == [k \in 1..Len(s) |-> Lower(s[k])]

\* str::starts_with
StartsWith(s, p) == Len(s) >= Len(p) /\ SubSeq(s, 1, Len(p)) = p

\* where a maximal run of non-whitespace characters starts, and where it ends
TokenStarts(s) ==
    {k \in 1..Len(s) : ~IsWhitespace(s[k]) /\ (k = 1 \/ IsWhitespace(s[k - 1]))}

TokenEnd(s, k) ==
    CHOOSE e \in k..Len(s) :
        /\ \A j \in k..e : ~IsWhitespace(s[j])
        /\ (e = Len(s) \/ IsWhitespace(s[e + 1]))

\* the runs of s that start at the positions starts, in order
TokensAt(s, starts) ==
    LET Nth(n) == CHOOSE k \in starts : Cardinality({j \in starts : j < k}) = n - 1
    IN  [n \in 1..Cardinality(starts) |-> SubSeq(s, Nth(n), TokenEnd(s, Nth(n)))]

\* str::split_whitespace: the maximal runs of non-whitespace characters, in
\* order (the set of starts is bound once)
split_whitespace(s) == CHOOSE toks \in {TokensAt(s, st) : st \in {TokenStarts(s)}} : TRUE

\* Iterator::skip(n)
Skip(s, n) == IF n >= Len(s) THEN <<>> ELSE SubSeq(s, n + 1, Len(s))

\* ------------------------------------------------------------------ f64

\* thousandths: the finest fraction the model's finite values carry
Scale == 1000

FracDigits == 3

Fin(v) == [cls |-> "fin", v |-> v]

NaN == [cls |-> "nan", v |-> 0]

Inf(sign) == [cls |-> "inf", v |-> sign]

None == [cls |-> "none", v |-> 0]

IsFinite(x) == x.cls = "fin"

RECURSIVE DigitsValue(_)
DigitsValue(ds) ==
    IF ds = <<>> THEN 0
    ELSE DigitsValue(SubSeq(ds, 1, Len(ds) - 1)) * 10 + DigitVal(ds[Len(ds)])

AllDigits(ds) == \A k \in 1..Len(ds) : IsDigit(ds[k])

RECURSIVE Pow10(_)
Pow10(n) == IF n = 0 THEN 1 ELSE 10 * Pow10(n - 1)

DotAt(s) == IF \E k \in 1..Len(s) : s[k] = "."
            THEN CHOOSE k \in 1..Len(s) : s[k] = "." /\ \A j \in 1..(k - 1) : s[j] # "."
            ELSE 0

\* the unsigned decimal part of <f64 as FromStr>: digits, optionally with one
\* point, at least one digit in all (fractions of up to FracDigits digits; the
\* exponent form is outside the model's alphabet)
ParseDecimal(s) ==
    LET d == DotAt(s)
        ip == IF d = 0 THEN s ELSE SubSeq(s, 1, d - 1)
        fp == IF d = 0 THEN <<>> ELSE SubSeq(s, d + 1, Len(s))
    IN  IF AllDigits(ip) /\ AllDigits(fp) /\ Len(ip) + Len(fp) > 0 /\ Len(fp) <= FracDigits
        THEN Fin(DigitsValue(ip) * Scale + DigitsValue(fp) * Pow10(FracDigits - Len(fp)))
        ELSE None

\* <f64 as FromStr>::from_str, behind str::parse at main.rs:107: an optional
\* sign, then a decimal number or, in any letter case, inf / infinity / nan
ParseF64(tok) ==
    LET signed == tok # <<>> /\ tok[1] \in {"+", "-"}
        sign == IF signed /\ tok[1] = "-" THEN -1 ELSE 1
        body == IF signed THEN Tail(tok) ELSE tok
        word == LowerAll(body)
    IN  IF word \in {<<"i", "n", "f">>, <<"i", "n", "f", "i", "n", "i", "t", "y">>}
        THEN Inf(sign)
        ELSE IF word = <<"n", "a", "n">>
        THEN NaN
        ELSE LET m == ParseDecimal(body)
             IN  IF m = None THEN None ELSE Fin(sign * m.v)

\* ------------------------------------------------------------------ parser

\* METRIC_NAMES has 12 entries (main.rs:23)
NumMetrics == 12

\* the literal 13 of main.rs:104 and :108
NumParts == 13

\* "GPU 0" (main.rs:100)
EntityTag == <<"G", "P", "U", " ", "0">>

\* parts.iter().filter_map(|s| s.parse().ok()).collect()
FilterMapParse(parts) ==
    SelectSeq([k \in 1..Len(parts) |-> ParseF64(parts[k])], LAMBDA x : x # None)

NotASample == <<None>>

\* main.rs:104-112 with neither count checked
ParseParts_Unchecked(parts) == Skip(FilterMapParse(parts), 1)

\* main.rs:104-112 without the check of values.len() at main.rs:108
ParseParts_Partial(parts) ==
    IF Len(parts) # NumParts THEN NotASample
    ELSE Skip(FilterMapParse(parts), 1)

\* main.rs:104-112: the count of the parts, their values, the count of the values
ParseParts(parts) ==
    IF Len(parts) # NumParts THEN NotASample
    ELSE LET values == FilterMapParse(parts)
         IN  IF Len(values) = NumParts THEN Skip(values, 1)
             ELSE NotASample

\* fn parse_metric_line: Some(record) as the record, None as NotASample; parts
\* is line.split_whitespace().skip(1).collect() (main.rs:103), bound once
parse_metric_line(line) ==
    IF ~StartsWith(line, EntityTag) THEN NotASample
    ELSE CHOOSE r \in {ParseParts(parts) : parts \in {Skip(split_whitespace(line), 1)}} : TRUE

\* ------------------------------------------------------------------ logger text

RECURSIVE NatToStr(_)
NatToStr(n) == IF n < 10 THEN <<Digits[n + 1]>>
               ELSE NatToStr(n \div 10) \o <<Digits[(n % 10) + 1]>>

\* the fraction digits of t thousandths, trailing zeros dropped
RECURSIVE FracToStr(_, _)
FracToStr(t, width) ==
    IF t = 0 THEN <<>>
    ELSE <<Digits[(t \div Pow10(width - 1)) + 1]>> \o FracToStr(t % Pow10(width - 1), width - 1)

\* <f64 as Display>::fmt, behind v.to_string() at main.rs:122
F64ToString(x) ==
    IF x.cls = "nan" THEN <<"N", "a", "N">>
    ELSE IF x.cls = "inf"
    THEN (IF x.v < 0 THEN <<"-">> ELSE <<>>) \o <<"i", "n", "f">>
    ELSE LET a == IF x.v < 0 THEN -x.v ELSE x.v
             f == a % Scale
         IN  (IF x.v < 0 THEN <<"-">> ELSE <<>>) \o NatToStr(a \div Scale)
             \o (IF f = 0 THEN <<>> ELSE <<".">> \o FracToStr(f, FracDigits))

\* METRIC_NAMES (main.rs:23-25), each name kept as one symbol
METRIC_NAMES ==
    << <<"SMACT">>, <<"SMOCC">>, <<"TENSO">>, <<"FP64A">>, <<"FP32A">>, <<"FP16A">>,
       <<"DRAMA">>, <<"PCITX">>, <<"PCIRX">>, <<"NVLTX">>, <<"NVLRX">>, <<"FB_USED">> >>

\* "timestamp,{}" with METRIC_NAMES.join(",") (main.rs:119), as its comma-separated fields
HeaderRow == << <<"timestamp">> >> \o METRIC_NAMES

\* chrono::Local::now().to_rfc3339() (main.rs:121): the text of a wall-clock
\* reading, kept as one symbol
Timestamp == <<"rfc3339">>

\* a row of the values alone
DataRow_NoTimestamp(values) == [k \in 1..Len(values) |-> F64ToString(values[k])]

\* format!("{},{}", timestamp, values...join(",")) (main.rs:122), as its fields
DataRow(values) == <<Timestamp>> \o [k \in 1..Len(values) |-> F64ToString(values[k])]

\* ------------------------------------------------------------------ f64 arithmetic

\* a natural number of any size: its digits in base Base, the lowest first,
\* the highest not 0; <<>> is 0
Base == 32768

Hd(a) == IF a = <<>> THEN 0 ELSE Head(a)

Tl(a) == IF a = <<>> THEN <<>> ELSE Tail(a)

\* the digit x below the number a
Cons(x, a) == IF x = 0 /\ a = <<>> THEN <<>> ELSE <<x>> \o a

RECURSIVE BAddC(_, _, _)
BAddC(a, b, c) ==
    IF a = <<>> /\ b = <<>> THEN Cons(c, <<>>)
    ELSE Cons((Hd(a) + Hd(b) + c) % Base, BAddC(Tl(a), Tl(b), (Hd(a) + Hd(b) + c) \div Base))

BAdd(a, b) == BAddC(a, b, 0)

\* a * k + c for k < Base
RECURSIVE BMulSmallC(_, _, _)
BMulSmallC(a, k, c) ==
    IF a = <<>> THEN Cons(c, <<>>)
    ELSE Cons((Head(a) * k + c) % Base, BMulSmallC(Tail(a), k, (Head(a) * k + c) \div Base))

BMulSmall(a, k) == BMulSmallC(a, k, 0)

RECURSIVE BMul(_, _)
BMul(a, b) ==
    IF b = <<>> THEN <<>>
    ELSE BAdd(BMulSmall(a, Head(b)), Cons(0, BMul(a, Tail(b))))

\* <<a \div k, a % k>> for 0 < k < Base
RECURSIVE BDivRem(_, _)
BDivRem(a, k) ==
    IF a = <<>> THEN << <<>>, 0 >>
    ELSE CHOOSE r \in { << Cons((hi[2] * Base + Head(a)) \div k, hi[1]),
                           (hi[2] * Base + Head(a)) % k >> : hi \in {BDivRem(Tail(a), k)} } : TRUE

RECURSIVE Pow2(_)
Pow2(n) == IF n = 0 THEN 1 ELSE 2 * Pow2(n - 1)

RECURSIVE Bits(_)
Bits(x) == IF x = 0 THEN 0 ELSE 1 + Bits(x \div 2)

\* the number of binary digits of a
BitLen(a) == IF a = <<>> THEN 0 ELSE 15 * (Len(a) - 1) + Bits(a[Len(a)])

RECURSIVE ZerosBelow(_, _)
ZerosBelow(a, n) == IF n = 0 \/ a = <<>> THEN a ELSE ZerosBelow(<<0>> \o a, n - 1)

\* a * 2^s
BShl(a, s) == ZerosBelow(BMulSmall(a, Pow2(s % 15)), s \div 15)

\* a \div 2^s
BShr(a, s) ==
    IF s \div 15 >= Len(a) THEN <<>>
    ELSE BDivRem(SubSeq(a, (s \div 15) + 1, Len(a)), Pow2(s % 15))[1]

RECURSIVE Trim(_)
Trim(a) == IF a = <<>> \/ a[Len(a)] # 0 THEN a ELSE Trim(SubSeq(a, 1, Len(a) - 1))

\* a % 2^s
BLow(a, s) ==
    IF s \div 15 >= Len(a) THEN a
    ELSE Trim(SubSeq(a, 1, s \div 15) \o <<a[(s \div 15) + 1] % Pow2(s % 15)>>)

\* -1, 0, 1 as a < b, a = b, a > b
RECURSIVE BCmp(_, _)
BCmp(a, b) ==
    IF Len(a) # Len(b) THEN (IF Len(a) < Len(b) THEN -1 ELSE 1)
    ELSE IF a = <<>> THEN 0
    ELSE IF a[Len(a)] # b[Len(b)] THEN (IF a[Len(a)] < b[Len(b)] THEN -1 ELSE 1)
    ELSE BCmp(SubSeq(a, 1, Len(a) - 1), SubSeq(b, 1, Len(b) - 1))

\* a - b for a >= b
RECURSIVE BSubC(_, _, _)
BSubC(a, b, c) ==
    IF a = <<>> THEN <<>>
    ELSE LET x == Head(a) - Hd(b) - c
         IN  <<IF x < 0 THEN x + Base ELSE x>> \o BSubC(Tail(a), Tl(b), IF x < 0 THEN 1 ELSE 0)

BSub(a, b) == Trim(BSubC(a, b, 0))

\* a small natural number as a number of any size
RECURSIVE Big(_)
Big(n) == IF n = 0 THEN <<>> ELSE <<n % Base>> \o Big(n \div Base)

\* the decimal digits of a
RECURSIVE BigToStr(_)
BigToStr(a) ==
    IF Len(a) <= 1 THEN NatToStr(Hd(a))
    ELSE CHOOSE t \in { BigToStr(qr[1]) \o <<Digits[qr[2] + 1]>> : qr \in {BDivRem(a, 10)} } : TRUE

\* the significand of an f64 has MantissaBits binary digits
MantissaBits == 53

\* a computed f64 that is not negative: m * 2^e with m of MantissaBits binary
\* digits (m = 0 for zero), or +inf, or NaN; exponents stay far inside the
\* range of the format, so there is no subnormal and no overflow
Float(m, e) == [cls |-> "fin", m |-> m, e |-> e]

FZero == Float(<<>>, 0)

FInf == [cls |-> "inf", m |-> <<>>, e |-> 0]

FNaN == [cls |-> "nan", m |-> <<>>, e |-> 0]

\* q * 2^e for a q of MantissaBits or MantissaBits + 1 binary digits
Carry(q, e) == IF BitLen(q) > MantissaBits THEN Float(BShr(q, 1), e + 1) ELSE Float(q, e)

\* q, or q + 1 when the part cut off, rem of s binary digits, is more than a
\* half, or is a half and q is odd
RoundUp(q, rem, s) ==
    LET c == BCmp(rem, BShl(<<1>>, s - 1))
    IN  IF c > 0 \/ (c = 0 /\ Hd(q) % 2 = 1) THEN BAdd(q, <<1>>) ELSE q

\* the f64 nearest to M * 2^E, a tie to the even significand: the rounding of
\* every f64 operation
Round(M, E) ==
    IF M = <<>> THEN FZero
    ELSE CHOOSE r \in
           { IF n <= MantissaBits
             THEN Float(BShl(M, MantissaBits - n), E - (MantissaBits - n))
             ELSE Carry(RoundUp(BShr(M, n - MantissaBits), BLow(M, n - MantissaBits),
                                n - MantissaBits),
                        E + (n - MantissaBits)) : n \in {BitLen(M)} } : TRUE

\* binary digits kept of a quotient before it is rounded
QuotBits == 90

\* the f64 nearest to n / d for whole n >= 0 and 0 < d < Base: a decimal
\* literal parsed, a whole number converted, the quotient of two whole f64
F64Of(n, d) ==
    CHOOSE r \in { Round(BAdd(BShl(qr[1], 1), IF qr[2] = 0 THEN <<>> ELSE <<1>>), -QuotBits - 1) :
                     qr \in {BDivRem(BShl(Big(n), QuotBits), d)} } : TRUE

\* a * b
Mul(a, b) ==
    IF a.cls = "nan" \/ b.cls = "nan" THEN FNaN
    ELSE IF a.cls = "inf" \/ b.cls = "inf"
    THEN (IF a = FZero \/ b = FZero THEN FNaN ELSE FInf)
    ELSE Round(BMul(a.m, b.m), a.e + b.e)

\* a + b
Add(a, b) ==
    IF a.cls = "nan" \/ b.cls = "nan" THEN FNaN
    ELSE IF a.cls = "inf" \/ b.cls = "inf" THEN FInf
    ELSE LET e == IF a.e <= b.e THEN a.e ELSE b.e
         IN  Round(BAdd(BShl(a.m, a.e - e), BShl(b.m, b.e - e)), e)

\* a - b for finite a >= b
Sub(a, b) ==
    LET e == IF a.e <= b.e THEN a.e ELSE b.e
    IN  Round(BSub(BShl(a.m, a.e - e), BShl(b.m, b.e - e)), e)

\* a / b for b a power of two: the exponent moves, nothing is rounded
DivPow2(a, b) == IF a.cls # "fin" \/ a = FZero THEN a ELSE Float(a.m, a.e - (b.e + MantissaBits - 1))

\* a <= b; false when either is NaN
Leq(a, b) ==
    IF a.cls = "nan" \/ b.cls = "nan" THEN FALSE
    ELSE IF b.cls = "inf" THEN TRUE
    ELSE IF a.cls = "inf" THEN FALSE
    ELSE IF a = FZero THEN TRUE
    ELSE IF b = FZero THEN FALSE
    ELSE a.e < b.e \/ (a.e = b.e /\ BCmp(a.m, b.m) <= 0)

\* x.floor() as usize for a finite x below 2^31
Floor(x) ==
    IF x = FZero THEN 0
    ELSE IF x.e >= 0 THEN Hd(BShl(x.m, x.e)) + Base * Hd(Tl(BShl(x.m, x.e)))
    ELSE Hd(BShr(x.m, -x.e)) + Base * Hd(Tl(BShr(x.m, -x.e)))

\* x.ceil() as usize
Ceil(x) == IF x = FZero \/ x.e >= 0 \/ BLow(x.m, -x.e) = <<>> THEN Floor(x) ELSE Floor(x) + 1

\* a parsed value that is not negative, as the f64 it is
ToF64(x) ==
    IF x.cls = "fin" THEN F64Of(x.v, Scale)
    ELSE IF x.cls = "inf" THEN FInf
    ELSE FNaN

\* ------------------------------------------------------------------ statistics and units

\* a filter that keeps zero as well
IsPositive_OrZero(x) == x.cls # "nan" /\ x.v >= 0

\* *v > 0.0 (main.rs:191), of a parsed value: false of NaN
IsPositive(x) == x.cls # "nan" /\ x.v > 0

\* a.partial_cmp(b) is Less (main.rs:192), of two positive parsed values: the
\* f64 nearest to two decimals are ordered as the decimals are
Less(a, b) ==
    IF a.cls = "inf" THEN FALSE
    ELSE IF b.cls = "inf" THEN TRUE
    ELSE a.v < b.v

\* x put into the ascending s after the values not greater than it
RECURSIVE Insert(_, _)
Insert(s, x) ==
    IF s = <<>> THEN <<x>>
    ELSE IF Less(x, s[Len(s)])
    THEN Append(Insert(SubSeq(s, 1, Len(s) - 1), x), s[Len(s)])
    ELSE Append(s, x)

\* sorted.sort_by(partial_cmp) (main.rs:192): a stable ascending sort
RECURSIVE sort_by(_)
sort_by(s) ==
    IF s = <<>> THEN <<>>
    ELSE Insert(sort_by(SubSeq(s, 1, Len(s) - 1)), s[Len(s)])

\* the sorted copy of the strictly positive values of a buffer (main.rs:191-192)
Sorted(buf) == sort_by(SelectSeq(buf, IsPositive))

\* rank = (pct as f64 / 100.0) * (sorted.len() - 1) as f64 (main.rs:76)
Rank(sorted, pct) == Mul(F64Of(pct, 100), F64Of(Len(sorted) - 1, 1))

\* rank.floor() as usize and rank.ceil() as usize (main.rs:77-78)
Low(sorted, pct) == Floor(Rank(sorted, pct))

High(sorted, pct) == Ceil(Rank(sorted, pct))

One == F64Of(1, 1)

\* sorted[low] * (1.0 - weight) + sorted[high] * weight with
\* weight = rank - low as f64 (main.rs:82-83)
Interpolate(sorted, rank, low, high) ==
    CHOOSE r \in { Add(Mul(ToF64(sorted[low + 1]), Sub(One, weight)),
                       Mul(ToF64(sorted[high + 1]), weight)) :
                     weight \in {Sub(rank, F64Of(low, 1))} } : TRUE

\* percentile (main.rs:72-85)
percentile(sorted, pct) ==
    IF sorted = <<>> THEN FZero
    ELSE CHOOSE r \in { IF Floor(rank) = Ceil(rank) THEN ToF64(sorted[Floor(rank) + 1])
                        ELSE Interpolate(sorted, rank, Floor(rank), Ceil(rank)) :
                          rank \in {Rank(sorted, pct)} } : TRUE

\* (p50, p90, _p99) of a buffer (main.rs:191-201)
Percentiles(buf) ==
    CHOOSE r \in { IF sorted = <<>> THEN <<FZero, FZero, FZero>>
                   ELSE <<percentile(sorted, 50), percentile(sorted, 90), percentile(sorted, 99)>> :
                     sorted \in {Sorted(buf)} } : TRUE

\* the width digits of t, leading zeros kept
RECURSIVE FixedDigits(_, _)
FixedDigits(t, width) ==
    IF width = 0 THEN <<>>
    ELSE FixedDigits(t \div 10, width - 1) \o <<Digits[(t % 10) + 1]>>

\* the decimal digits of the whole number M with a point before the last prec
FixedText(M, prec) ==
    IF prec = 0 THEN BigToStr(M)
    ELSE CHOOSE t \in { BigToStr(qr[1]) \o <<".">> \o FixedDigits(qr[2], prec) :
                          qr \in {BDivRem(M, Pow10(prec))} } : TRUE

\* a finite x = m / 2^s times 10^prec, rounded to a whole number: to the
\* nearest, a tie to the even one
ScaledRound(m, s, prec) ==
    CHOOSE r \in { RoundUp(BShr(scaled, s), BLow(scaled, s), s) :
                     scaled \in {BMulSmall(m, Pow10(prec))} } : TRUE

\* format!("{:.prec}", x): x in decimal with prec digits after the point, the
\* last one rounded to nearest on the exact value of x
FormatFixed(x, prec) ==
    IF x.cls = "nan" THEN <<"N", "a", "N">>
    ELSE IF x.cls = "inf" THEN <<"i", "n", "f">>
    ELSE IF x.e >= 0 THEN FixedText(BMulSmall(BShl(x.m, x.e), Pow10(prec)), prec)
    ELSE FixedText(ScaledRound(x.m, -x.e, prec), prec)

\* KB, MB, GB, TB (main.rs:40-43)
KB == F64Of(1024, 1)

MB == Mul(KB, F64Of(1024, 1))

GB == Mul(MB, F64Of(1024, 1))

TB == Mul(GB, F64Of(1024, 1))

\* format_bytes_with_unit (main.rs:39-70)
format_bytes_with_unit(value, per_sec) ==
    LET pick == IF Leq(TB, value) THEN <<DivPow2(value, TB), <<"T", "B">> >>
                ELSE IF Leq(GB, value) THEN <<DivPow2(value, GB), <<"G", "B">> >>
                ELSE IF Leq(MB, value) THEN <<DivPow2(value, MB), <<"M", "B">> >>
                ELSE IF Leq(KB, value) THEN <<DivPow2(value, KB), <<"K", "B">> >>
                ELSE <<value, <<"B">> >>
        suffix == IF per_sec THEN <<"/", "s">> ELSE <<>>
    IN  IF pick[2] = <<"B">>
        THEN FormatFixed(pick[1], 0) \o <<" ">> \o pick[2] \o suffix
        ELSE FormatFixed(pick[1], 2) \o <<" ">> \o pick[2] \o suffix

\* ------------------------------------------------------------------ the frame

\* the largest r below 2^(bit + 1) above the bits already set in r, with r * r <= N
RECURSIVE SqrtBits(_, _, _)
SqrtBits(N, r, bit) ==
    IF bit < 0 THEN r
    ELSE IF BCmp(BMul(BAdd(r, BShl(<<1>>, bit)), BAdd(r, BShl(<<1>>, bit))), N) <= 0
    THEN SqrtBits(N, BAdd(r, BShl(<<1>>, bit)), bit - 1)
    ELSE SqrtBits(N, r, bit - 1)

\* binary digits the significand is moved up before the root is taken: enough
\* for a root of MantissaBits + 2 digits, and even or odd as the exponent is
RootShift(e) == MantissaBits + 3 + (e % 2)

\* val.sqrt() (main.rs:187) of a positive f64: the square root, rounded as
\* every f64 operation is
Sqrt(x) ==
    IF x.cls # "fin" \/ x = FZero THEN x
    ELSE CHOOSE y \in
           { Round(BAdd(BShl(r, 1), IF BMul(r, r) = BShl(x.m, RootShift(x.e)) THEN <<>> ELSE <<1>>),
                   ((x.e - RootShift(x.e)) \div 2) - 1) :
               r \in {SqrtBits(BShl(x.m, RootShift(x.e)), <<>>, MantissaBits + 1)} } : TRUE

\* u64::MAX, what +inf is cast to
U64Max == BSub(BShl(<<1>>, 64), <<1>>)

\* x as u64 (main.rs:188) of an f64 that is not negative: truncated, NaN to 0,
\* too large a value to u64::MAX
AsU64(x) ==
    IF x.cls = "nan" THEN <<>>
    ELSE IF x.cls = "inf" THEN U64Max
    ELSE IF x = FZero THEN <<>>
    ELSE IF x.e >= 0
    THEN (IF BitLen(x.m) + x.e > 64 THEN U64Max ELSE BShl(x.m, x.e))
    ELSE BShr(x.m, -x.e)

\* main.rs:187-188: the bar of a value: 0 when the value is <= 0.0, else
\* (val.sqrt() * 100.0) as u64; NaN is not <= 0.0, its root is NaN
BarValue(val) ==
    IF val.cls # "nan" /\ val.v <= 0 THEN <<>>
    ELSE AsU64(Mul(Sqrt(ToF64(val)), F64Of(100, 1)))

\* labels (main.rs:185): the positions of the buffer, counted from 0, as text
Labels(buf) == [j \in 1..Len(buf) |-> NatToStr(j - 1)]

\* bar_data (main.rs:186-189): for every position of the buffer its label and
\* the bar of the value there
BarData(buf) == [j \in 1..Len(buf) |-> <<Labels(buf)[j], BarValue(buf[j])>>]

Chars_p50 == <<"p", "5", "0", ":", " ">>

Chars_p90 == <<"p", "9", "0", ":", " ">>

Hundred == F64Of(100, 1)

\* the text of the statistics region (main.rs:217-236), by the metric's name:
\* bytes per second, FB_USED in bytes from MB, else a percentage
StatsText(i, buf) ==
    CHOOSE t \in
      { IF METRIC_NAMES[i] \in {<<"PCITX">>, <<"PCIRX">>, <<"NVLTX">>, <<"NVLRX">>}
        THEN Chars_p50 \o format_bytes_with_unit(p[1], TRUE) \o <<",">>
             \o Chars_p90 \o format_bytes_with_unit(p[2], TRUE)
        ELSE IF METRIC_NAMES[i] = <<"FB_USED">>
        THEN Chars_p50 \o format_bytes_with_unit(Mul(Mul(p[1], KB), KB), FALSE) \o <<",">>
             \o Chars_p90 \o format_bytes_with_unit(Mul(Mul(p[2], KB), KB), FALSE)
        ELSE Chars_p50 \o FormatFixed(Mul(p[1], Hundred), 1) \o <<"%", " ">>
             \o Chars_p90 \o FormatFixed(Mul(p[2], Hundred), 1) \o <<"%">> :
          p \in {Percentiles(buf)} } : TRUE

\* what the frame shows for metric i drawn from the buffer buf (main.rs:184-238)
Panel(i, buf) == [title |-> METRIC_NAMES[i], bars |-> BarData(buf), stats |-> StatsText(i, buf)]

\* what terminal.draw shows, drawn from the buffers h (main.rs:176-240)
Frame(h) == [i \in 1..NumMetrics |-> Panel(i, h[i])]

\* ------------------------------------------------------------------ bounds and inputs

\* HISTORY_LEN (main.rs:153 sets 100): the buffers are checked at a reduced capacity
HISTORY_LEN == 2

\* lines the telemetry producer writes in one run
MaxLines == HISTORY_LEN + 1

\* the clock readings run from 0 to MaxTime
MaxTime == 2

\* the clock readings of a run with the logger run from 0 to LogMaxTime
LogMaxTime == 0

\* lines the telemetry producer writes in a run with the logger
MaxLogLines == 2

\* values of --interval (args.interval_ms)
Intervals == {0, 1}

Zero == <<"0">>

\* a line: the prefix, then each field after one blank
RECURSIVE MkLine(_, _)
MkLine(prefix, fields) ==
    IF fields = <<>> THEN prefix
    ELSE MkLine(prefix \o <<" ">> \o Head(fields), Tail(fields))

Zeros(n) == [k \in 1..n |-> Zero]

\* the column header the producer prints
HeaderLine == <<"#", "E", "n", "t", "i", "t", "y", " ", " ", "I", "D">>

\* "GPU 0 <a> <b> 0 ... 0": n fields after the two tokens of the tag
SampleLine(a, b, n) == MkLine(EntityTag, <<a, b>> \o Zeros(n - 2))

LineA == SampleLine(<<"5">>, <<"1", "0">>, NumMetrics)

LineB == SampleLine(<<"0", ".", "2", "5">>, <<"7">>, NumMetrics)

\* "GPU 0 NaN inf -3 0 ... 0"
LineNaN ==
    MkLine(EntityTag, <<<<"N", "a", "N">>, <<"i", "n", "f">>, <<"-", "3">>>> \o Zeros(NumMetrics - 3))

\* one field more than the producer prints: NumMetrics + 1 fields after "GPU 0"
LineLong == SampleLine(<<"5">>, <<"1", "0">>, NumMetrics + 1)

\* lines that are no sample: a blank line, another entity's line, a field that
\* is no number
BlankLine == <<>>

LineOtherGpu == MkLine(<<"G", "P", "U", " ", "1">>, <<<<"5">>, <<"1", "0">>>> \o Zeros(NumMetrics - 2))

LineWord == SampleLine(<<"N", "/", "A">>, <<"1", "0">>, NumMetrics)

\* lines the telemetry producer writes in a run that is fed lines of every kind
MaxDropLines == 2

\* what the producer may write: in a run with the logger, in a run without
LogLines == {HeaderLine, LineA, LineB}

DropLines == {BlankLine, HeaderLine, LineOtherGpu, LineLong, LineWord, LineA}

LoopLines == {HeaderLine, LineA, LineNaN, LineLong}

\* KeyCode::Char('q') (main.rs:246)
QuitKey == "q"

\* crossterm events: the quit key, another key, an event that is no key
Events == {QuitKey, "x", "resize"}

\* ------------------------------------------------------------------ state

VARIABLES
    pc,         \* where main() is
    logCfg,     \* args.log_file is Some
    delay,      \* Duration::from_millis(args.interval_ms)
    rawMode,    \* the terminal is in raw mode
    altScreen,  \* the terminal shows the alternate screen
    history,    \* history: Vec<MetricBuffer>, one buffer per metric
    last_tick,  \* last_tick: Instant
    childOut,   \* every line the producer has written to its stdout
    nread,      \* how many of them lines.next() has returned
    eof,        \* the producer has closed its stdout
    lpc,        \* where the logger thread is
    chan,       \* the mpsc channel's queue
    logfile,    \* the rows of the log file
    frames,     \* parity of the number of frames drawn
    drawnAt,    \* when the latest draw started, -1 before the first
    screen,     \* the buffers the latest frame was drawn from, <<>> before the first
    accepted,   \* every record parse_metric_line has returned to the loop
    line,       \* parser run: the line given
    parsed,     \* parser run: what parse_metric_line returned
    call,       \* statistics run: the function called and its arguments
    ret         \* statistics run: what it returned

vars == <<pc, logCfg, delay, rawMode, altScreen, history, last_tick, childOut,
          nread, eof, lpc, chan, logfile, frames, drawnAt, screen, accepted, line,
          parsed,
          call, ret>>

mainVars == <<pc, rawMode, altScreen, history, last_tick, frames, drawnAt, screen, accepted,
             nread>>

loggerVars == <<lpc, chan, logfile>>

envVars == <<childOut, eof>>

parserVars == <<line, parsed, call, ret>>

cfgVars == <<logCfg, delay>>

Unset == <<[cls |-> "unset", v |-> 0]>>

\* no function is called in this run
NoCall == [fn |-> "none", buf |-> <<>>, p |-> 0, q |-> 0, value |-> FZero, per_sec |-> FALSE]

\* nothing has returned yet
NoRet ==
    [fn |-> "none", sorted |-> <<>>, at_p |-> FZero, at_q |-> FZero,
     stats |-> <<>>, text |-> <<>>]

LoopPcs == {"read", "render", "poll"}

\* main() has returned: Ok(()), an Err of the setup (main.rs:134-147), an Err of
\* the loop or the teardown (main.rs:240-255); or it has panicked
ExitPcs == {"exit_ok", "setup_err", "exit_err", "panic"}

Running == pc \notin ExitPcs

\* main() is entered: the arguments are parsed (main.rs:130-131)
InitProgram ==
    /\ pc = "spawn_logger"
    /\ logCfg \in BOOLEAN
    /\ delay \in Intervals
    /\ rawMode = FALSE
    /\ altScreen = FALSE
    /\ history = [i \in 1..NumMetrics |-> <<>>]
    /\ last_tick = 0
    /\ childOut = <<>>
    /\ nread = 0
    /\ eof = FALSE
    /\ lpc = "off"
    /\ chan = <<>>
    /\ logfile = <<>>
    /\ frames = 0
    /\ drawnAt = -1
    /\ screen = <<>>
    /\ accepted = <<>>

Init ==
    /\ InitProgram
    /\ line = <<>>
    /\ parsed = Unset
    /\ call = NoCall
    /\ ret = NoRet

\* ------------------------------------------------------------------ main(): setup

\* main.rs:132: args.log_file.map(spawn_logger_thread); the channel exists and
\* the thread is started when the call returns (main.rs:116-117)
SpawnLogger ==
    /\ pc = "spawn_logger"
    /\ lpc' = IF logCfg THEN "create" ELSE "off"
    /\ pc' = "raw"
    /\ UNCHANGED <<rawMode, altScreen, history, last_tick, frames, drawnAt, screen, accepted, nread>>
    /\ UNCHANGED <<chan, logfile>>
    /\ UNCHANGED <<envVars, parserVars, cfgVars>>

\* main.rs:134: enable_raw_mode()?
EnableRawMode ==
    /\ pc = "raw"
    /\ \E ok \in BOOLEAN :
         /\ rawMode' = ok
         /\ pc' = IF ok THEN "alt" ELSE "setup_err"
    /\ UNCHANGED <<altScreen, history, last_tick, frames, drawnAt, screen, accepted, nread>>
    /\ UNCHANGED <<loggerVars, envVars, parserVars, cfgVars>>

\* main.rs:135-136: execute!(stdout, EnterAlternateScreen)?
EnterAltScreen ==
    /\ pc = "alt"
    /\ \E ok \in BOOLEAN :
         /\ altScreen' = ok
         /\ pc' = IF ok THEN "term" ELSE "setup_err"
    /\ UNCHANGED <<rawMode, history, last_tick, frames, drawnAt, screen, accepted, nread>>
    /\ UNCHANGED <<loggerVars, envVars, parserVars, cfgVars>>

\* main.rs:137-138: Terminal::new(backend)?
NewTerminal ==
    /\ pc = "term"
    /\ \E ok \in BOOLEAN : pc' = IF ok THEN "child" ELSE "setup_err"
    /\ UNCHANGED <<rawMode, altScreen, history, last_tick, frames, drawnAt, screen, accepted, nread>>
    /\ UNCHANGED <<loggerVars, envVars, parserVars, cfgVars>>

\* main.rs:140-155: Command::new("dcgmi")...spawn()?, then the reader, the empty
\* history and last_tick = Instant::now(), a reading in 0..T
SpawnChild(T) ==
    /\ pc = "child"
    /\ \E ok \in BOOLEAN, t \in 0..T :
         /\ pc' = IF ok THEN "read" ELSE "setup_err"
         /\ last_tick' = IF ok THEN t ELSE last_tick
    /\ history' = [i \in 1..NumMetrics |-> <<>>]
    /\ UNCHANGED <<rawMode, altScreen, frames, drawnAt, screen, accepted, nread>>
    /\ UNCHANGED <<loggerVars, envVars, parserVars, cfgVars>>

\* ------------------------------------------------------------------ main(): the loop

\* Push with pop_back in place of pop_front
Push_PopBack(buf, val) ==
    Append(IF Len(buf) >= HISTORY_LEN THEN SubSeq(buf, 1, Len(buf) - 1) ELSE buf, val)

\* main.rs:161-165: one value into one buffer
Push(buf, val) ==
    Append(IF Len(buf) >= HISTORY_LEN THEN Tail(buf) ELSE buf, val)

\* PushRecord with value i going to the buffer after buffer i
PushRecord_Shifted(h, vals) ==
    [i \in 1..NumMetrics |->
        LET k == IF i = 1 THEN NumMetrics ELSE i - 1
        IN  IF k <= Len(vals) THEN Push(h[i], vals[k]) ELSE h[i]]

\* main.rs:160-166: for (i, val) in vals.iter().enumerate()
PushRecord(h, vals) ==
    [i \in 1..NumMetrics |-> IF i <= Len(vals) THEN Push(h[i], vals[i]) ELSE h[i]]

\* SendReady of a rendezvous-like channel holding one record
SendReady_Bounded(q) == Len(q) < 1

\* mpsc::channel (main.rs:116) is the unbounded flavour: a send never waits for room
SendReady(q) == TRUE

\* a send that queues nothing
Send_Dropped(q, vals) == q

\* a send that queues the record even when the receiver is gone
Send_Always(q, vals) == Append(q, vals)

\* tx.send(vals).ok() (main.rs:169): queued while the receiver lives, else Err, dropped
Send(q, vals) == IF lpc \in {"create", "header", "recv"} THEN Append(q, vals) ELSE q

\* every parse result is taken for a record
IsSome_Always(vals) == TRUE

\* if let Some(vals) = parse_metric_line(&line) (main.rs:159)
IsSome(vals) == vals # NotASample

\* lines.next() (main.rs:158) returns: a line is buffered, or the pipe is at its end
LineReady == nread < Len(childOut) \/ eof

\* main.rs:158-173: lines.next(), blocking; at most one line an iteration (the
\* while-let ends in break).  At the end of the pipe next() is None and nothing
\* is read; an Err item, a line that is not UTF-8, is consumed with no other
\* effect, as a line that does not parse is.  A record longer than the history
\* table would panic at main.rs:161
Ingest ==
    /\ pc = "read"
    /\ LineReady
    /\ IF nread < Len(childOut)
       THEN \E vals \in {parse_metric_line(childOut[nread + 1])} :
                /\ nread' = nread + 1
                /\ IF ~IsSome(vals)
                   THEN /\ pc' = "render"
                        /\ UNCHANGED <<history, accepted, chan>>
                   ELSE /\ history' = PushRecord(history, vals)
                        /\ accepted' = Append(accepted, vals)
                        /\ IF Len(vals) > NumMetrics
                           THEN pc' = "panic" /\ UNCHANGED chan
                           ELSE /\ SendReady(chan)
                                /\ pc' = "render"
                                /\ chan' = IF logCfg THEN Send(chan, vals) ELSE chan
       ELSE /\ pc' = "render"
            /\ UNCHANGED <<nread, history, accepted, chan>>
    /\ UNCHANGED <<rawMode, altScreen, last_tick, frames, drawnAt, screen>>
    /\ UNCHANGED <<lpc, logfile, envVars, parserVars, cfgVars>>

\* RenderDue with the gate left open
RenderDue_Always(t) == TRUE

\* main.rs:175: last_tick.elapsed() >= delay, the clock read at t
RenderDue(t) == t - last_tick >= delay

\* buffers without their newest value
Drawn_Stale(h) ==
    [i \in 1..NumMetrics |-> IF h[i] = <<>> THEN <<>> ELSE SubSeq(h[i], 1, Len(h[i]) - 1)]

\* history[i].iter() in the draw closure (main.rs:185-191): the buffers as
\* they are when terminal.draw is called
Drawn(h) == h

\* main.rs:175-242: the gate, with the clock read at t (Instant is monotonic: no
\* reading is before last_tick); the draw, which may fail; the timer reset, with
\* the clock read at t2
Render(T) ==
    /\ pc = "render"
    /\ \E t \in last_tick..T :
         IF RenderDue(t)
         THEN \E ok \in BOOLEAN, t2 \in t..T :
                IF ok
                THEN /\ frames' = 1 - frames
                     /\ drawnAt' = t
                     /\ screen' = Drawn(history)
                     /\ last_tick' = t2
                     /\ pc' = "poll"
                ELSE /\ pc' = "exit_err"
                     /\ UNCHANGED <<frames, drawnAt, screen, last_tick>>
         ELSE /\ pc' = "poll"
              /\ UNCHANGED <<frames, drawnAt, screen, last_tick>>
    /\ UNCHANGED <<rawMode, altScreen, history, accepted, nread>>
    /\ UNCHANGED <<loggerVars, envVars, parserVars, cfgVars>>

\* main.rs:244-250: event::poll(10 ms)? and, when it reports an event, event::read()?:
\* an error, no event within the timeout, or the event e; the loop breaks on the key 'q'
\* every event that is not a key press breaks the loop
KeyBreaks_AnyKey(e) == e # "resize"

\* main.rs:245-246: the event is a key and its code is KeyCode::Char('q')
KeyBreaks(e) == e = QuitKey

\* main.rs:245-249: event::read() has returned the event e
PollEvent(e) ==
    /\ pc = "poll"
    /\ pc' = IF KeyBreaks(e) THEN "unraw" ELSE "read"
    /\ UNCHANGED <<rawMode, altScreen, history, last_tick, frames, drawnAt, screen, accepted, nread>>
    /\ UNCHANGED <<loggerVars, envVars, parserVars, cfgVars>>

Poll ==
    \/ /\ pc = "poll"
       /\ pc' \in {"exit_err", "read"}
       /\ UNCHANGED <<rawMode, altScreen, history, last_tick, frames, drawnAt, screen, accepted, nread>>
       /\ UNCHANGED <<loggerVars, envVars, parserVars, cfgVars>>
    \/ \E e \in Events : PollEvent(e)

\* ------------------------------------------------------------------ main(): teardown

\* main.rs:253: disable_raw_mode()?
DisableRawMode ==
    /\ pc = "unraw"
    /\ \E ok \in BOOLEAN :
         /\ rawMode' = IF ok THEN FALSE ELSE rawMode
         /\ pc' = IF ok THEN "unalt" ELSE "exit_err"
    /\ UNCHANGED <<altScreen, history, last_tick, frames, drawnAt, screen, accepted, nread>>
    /\ UNCHANGED <<loggerVars, envVars, parserVars, cfgVars>>

\* main.rs:254: execute!(terminal.backend_mut(), LeaveAlternateScreen)?
LeaveAltScreen ==
    /\ pc = "unalt"
    /\ \E ok \in BOOLEAN :
         /\ altScreen' = IF ok THEN FALSE ELSE altScreen
         /\ pc' = IF ok THEN "cursor" ELSE "exit_err"
    /\ UNCHANGED <<rawMode, history, last_tick, frames, drawnAt, screen, accepted, nread>>
    /\ UNCHANGED <<loggerVars, envVars, parserVars, cfgVars>>

\* main.rs:255-256: terminal.show_cursor()?; Ok(())
ShowCursor ==
    /\ pc = "cursor"
    /\ \E ok \in BOOLEAN : pc' = IF ok THEN "exit_ok" ELSE "exit_err"
    /\ UNCHANGED <<rawMode, altScreen, history, last_tick, frames, drawnAt, screen, accepted, nread>>
    /\ UNCHANGED <<loggerVars, envVars, parserVars, cfgVars>>

\* ------------------------------------------------------------------ the logger thread

\* main.rs:118: File::create(path).expect(..): on failure this thread panics and
\* unwinds, which drops rx; main() is another thread and runs on
LoggerCreate ==
    /\ Running
    /\ lpc = "create"
    /\ \E ok \in BOOLEAN :
         /\ lpc' = IF ok THEN "header" ELSE "panicked"
         /\ chan' = IF ok THEN chan ELSE <<>>
    /\ UNCHANGED <<logfile, mainVars, envVars, parserVars, cfgVars>>

\* main.rs:119: writeln!(file, "timestamp,{}", ...).ok()
LoggerHeader ==
    /\ Running
    /\ lpc = "header"
    /\ \E ok \in BOOLEAN : logfile' = IF ok THEN Append(logfile, HeaderRow) ELSE logfile
    /\ lpc' = "recv"
    /\ UNCHANGED <<chan, mainVars, envVars, parserVars, cfgVars>>

\* RecvIndex of a queue that hands out the newest record first
RecvIndex_Newest(q) == Len(q)

\* rx.recv() (main.rs:120) takes the oldest queued record
RecvIndex(q) == 1

\* main.rs:120-124: one turn of the while-let: recv, format, writeln!(..).ok()
LoggerWrite ==
    /\ Running
    /\ lpc = "recv"
    /\ chan # <<>>
    /\ LET k == RecvIndex(chan)
       IN  /\ chan' = SubSeq(chan, 1, k - 1) \o SubSeq(chan, k + 1, Len(chan))
           /\ \E ok \in BOOLEAN :
                logfile' = IF ok THEN Append(logfile, DataRow(chan[k])) ELSE logfile
    /\ UNCHANGED <<lpc, mainVars, envVars, parserVars, cfgVars>>

\* ------------------------------------------------------------------ the environment

\* the producer (dcgmi dmon) writes a line to its stdout
Produce(lines, max) ==
    /\ pc \in LoopPcs
    /\ ~eof
    /\ Len(childOut) < max
    /\ \E l \in lines : childOut' = Append(childOut, l)
    /\ UNCHANGED <<eof, mainVars, loggerVars, parserVars, cfgVars>>

\* the producer exits, or closes its stdout
ChildExit ==
    /\ pc \in LoopPcs
    /\ ~eof
    /\ eof' = TRUE
    /\ UNCHANGED <<childOut, mainVars, loggerVars, parserVars, cfgVars>>


\* ------------------------------------------------------------------ the parser alone

MkLineSep(prefix, fields, sep) ==
    LET RECURSIVE Go(_, _)
        Go(acc, fs) == IF fs = <<>> THEN acc ELSE Go(acc \o sep \o Head(fs), Tail(fs))
    IN  Go(prefix, fields)

\* tokens: decimal numbers, the words from_str also takes, and text it refuses
NumberTokens ==
    { <<"5">>, <<"1", "0">>, <<"0", ".", "2", "5">>, <<"-", "3">>, <<"+", "7">>,
      <<".", "5">>, <<"5", ".">> }

WordTokens ==
    { <<"N", "a", "N">>, <<"n", "a", "n">>, <<"i", "n", "f">>, <<"-", "i", "n", "f">>,
      <<"I", "n", "f", "i", "n", "i", "t", "y">> }

BadTokens ==
    { <<"x">>, <<"N", "/", "A">>, <<"1", ".", "2", ".", "3">>, <<"-">>, <<".">>,
      <<"1", "0", "x">> }

Tokens == NumberTokens \cup WordTokens \cup BadTokens

\* how a line may begin: the tag, and near misses of it
Prefixes ==
    { EntityTag,
      <<"G", "P", "U", " ", "1">>,
      <<"G", "P", "U", " ", " ", "0">>,
      <<" ", "G", "P", "U", " ", "0">>,
      <<"G", "P", "U", "\t", "0">>,
      <<"g", "p", "u", " ", "0">>,
      <<"G", "P", "U", " ", "0", "1">>,
      <<"G", "P", "U", " ", "0", "x">>,
      <<"G", "P", "U">> }

Separators == { <<" ">>, <<" ", "\t", " ">> }

\* a prefix, then n fields: 5, 10 and zeros, with the token tok as field k
FieldsWith(n, k, tok) == [j \in 1..n |-> IF j = k THEN tok
                                        ELSE IF j = 1 THEN <<"5">>
                                        ELSE IF j = 2 THEN <<"1", "0">> ELSE Zero]

FieldCounts == (NumMetrics - 1)..(NumMetrics + 2)

ParserLines ==
    { MkLineSep(p, FieldsWith(n, k, tok), sep) :
        p \in Prefixes, n \in FieldCounts, k \in {1, 2, NumMetrics}, tok \in Tokens,
        sep \in Separators }
    \cup LoopLines \cup { <<>>, EntityTag, LineB }

\* parse_metric_line is called on the line
ParseLine ==
    /\ parsed = Unset
    /\ parsed' = parse_metric_line(line)
    /\ UNCHANGED <<line, call, ret, mainVars, loggerVars, envVars, cfgVars>>

InitParser ==
    /\ InitProgram
    /\ ~logCfg
    /\ delay = 0
    /\ line \in ParserLines
    /\ parsed = Unset
    /\ call = NoCall
    /\ ret = NoRet

ParserSpec == InitParser /\ [][ParseLine]_vars

\* ------------------------------------------------------------------ the statistics alone

\* values per buffer in a run of the statistics alone
MaxBuf == 3

\* what a buffer may hold: a negative value, zero, positive values, +inf, NaN
StatValues == {Fin(-2 * Scale), Fin(0), Fin(7), Fin(250), Fin(5 * Scale), Inf(1), NaN}

RECURSIVE SeqsUpTo(_, _)
SeqsUpTo(S, n) ==
    IF n = 0 THEN {<<>>}
    ELSE LET shorter == SeqsUpTo(S, n - 1)
         IN  shorter \cup {Append(s, x) : s \in {t \in shorter : Len(t) = n - 1}, x \in S}

Buffers == SeqsUpTo(StatValues, MaxBuf)

\* percentages asked for: those of the draw closure (main.rs:197-199) and others
Pcts == {0, 33, 50, 90, 99, 100}

\* magnitudes given to the formatter: around each threshold, and +inf
Magnitudes ==
    { FZero, F64Of(1, 2), F64Of(3, 2), F64Of(1023, 1), F64Of(1023999, Scale),
      KB, F64Of(1536, 1), Sub(MB, One), MB, Mul(MB, F64Of(5, 1)),
      Sub(GB, One), GB, Sub(TB, One), TB, Mul(TB, F64Of(3, 1)), FInf }

StatsCalls ==
    { [fn |-> "stats", buf |-> b, p |-> p, q |-> q, value |-> FZero, per_sec |-> FALSE] :
        b \in Buffers, p \in Pcts, q \in Pcts }

FormatCalls ==
    { [fn |-> "format", buf |-> <<>>, p |-> 0, q |-> 0, value |-> m, per_sec |-> s] :
        m \in Magnitudes, s \in BOOLEAN }

\* the statistics of the draw closure on call.buf (main.rs:191-201), and
\* percentile at call.p and at call.q
EvalStats ==
    /\ call.fn = "stats"
    /\ ret = NoRet
    /\ \E sorted \in {Sorted(call.buf)} :
         ret' = [fn |-> "stats", sorted |-> sorted,
                 at_p |-> percentile(sorted, call.p),
                 at_q |-> percentile(sorted, call.q),
                 stats |-> Percentiles(call.buf), text |-> <<>>]
    /\ UNCHANGED <<call, line, parsed, mainVars, loggerVars, envVars, cfgVars>>

\* format_bytes_with_unit(call.value, call.per_sec)
EvalFormat ==
    /\ call.fn = "format"
    /\ ret = NoRet
    /\ ret' = [NoRet EXCEPT !.fn = "format",
                            !.text = format_bytes_with_unit(call.value, call.per_sec)]
    /\ UNCHANGED <<call, line, parsed, mainVars, loggerVars, envVars, cfgVars>>

InitStats ==
    /\ InitProgram
    /\ ~logCfg
    /\ delay = 0
    /\ line = <<>>
    /\ parsed = Unset
    /\ call \in StatsCalls \cup FormatCalls
    /\ call.p <= call.q
    /\ ret = NoRet

StatsSpec == InitStats /\ [][EvalStats \/ EvalFormat]_vars

\* ------------------------------------------------------------------ the program

MainStep(T) ==
    \/ SpawnLogger
    \/ EnableRawMode
    \/ EnterAltScreen
    \/ NewTerminal
    \/ SpawnChild(T)
    \/ Ingest
    \/ Render(T)
    \/ Poll
    \/ DisableRawMode
    \/ LeaveAltScreen
    \/ ShowCursor

LoggerStep == LoggerCreate \/ LoggerHeader \/ LoggerWrite

\* the program started with --log
InitLog == Init /\ logCfg

Next == MainStep(LogMaxTime) \/ LoggerStep \/ ChildExit \/ Produce(LogLines, MaxLogLines)

Spec == InitLog /\ [][Next]_vars

\* the program started with --log and fed lines of every kind
NextDrop == MainStep(LogMaxTime) \/ LoggerStep \/ ChildExit \/ Produce(DropLines, MaxDropLines)

DropSpec == InitLog /\ [][NextDrop]_vars

\* the program started without --log: the logger thread never exists
InitNoLog == Init /\ ~logCfg

NextNoLog == MainStep(MaxTime) \/ ChildExit \/ Produce(LoopLines, MaxLines)

FeedSpec == InitNoLog /\ [][NextNoLog]_vars

\* ------------------------------------------------------------------ properties

Min(a, b) == IF a <= b THEN a ELSE b

\* field i of the records recs, in order
Column(recs, i) == [j \in 1..Len(recs) |-> recs[j][i]]

\* the last m elements of s
LastOf(s, m) == SubSeq(s, Len(s) - m + 1, Len(s))

\* C1: every history buffer holds at most HISTORY_LEN values, and they are
\* the last min(HISTORY_LEN, n) values pushed to it, oldest first, n being the
\* number of records accepted so far
C1_HistoryIsLastK ==
    \A i \in 1..NumMetrics :
        /\ Len(history[i]) <= HISTORY_LEN
        /\ history[i] = LastOf(Column(accepted, i), Min(HISTORY_LEN, Len(accepted)))

\* C1 witness: a full buffer has evicted its oldest value, which differs from its newest
C1_Witness ==
    /\ Len(accepted) = HISTORY_LEN + 1
    /\ Len(history[1]) = HISTORY_LEN
    /\ accepted[1][1] # accepted[HISTORY_LEN + 1][1]

IsNumeric(tok) == ParseF64(tok) # None

AllNumeric(toks) == \A k \in 1..Len(toks) : IsNumeric(toks[k])

\* the whitespace-separated fields of the text after the five characters of the tag
FieldsAfterTag(l) == split_whitespace(Skip(l, Len(EntityTag)))

\* C2 as stated: a record exactly for a line that starts with the tag "GPU 0" and
\* has NumMetrics + 1 numeric fields after it, the record being the fields after
\* the first of them; "not a sample" for any other line
C2_Original ==
    parsed # Unset =>
        LET fs == FieldsAfterTag(line)
        IN  IF StartsWith(line, EntityTag) /\ Len(fs) = NumMetrics + 1 /\ AllNumeric(fs)
            THEN parsed = [i \in 1..NumMetrics |-> ParseF64(fs[i + 1])]
            ELSE parsed = NotASample

\* C2 amended: a record exactly for a line that starts with "GPU 0" and whose
\* tokens after the first one ("GPU") are NumMetrics + 1 floating-point literals,
\* the entity id and NumMetrics metric fields; the record is the NumMetrics
\* values after the entity id, in order; any other line is "not a sample", and
\* no record has fewer or more than NumMetrics values
C2_ParserContract ==
    parsed # Unset =>
        LET toks == split_whitespace(line)
        IN  /\ IF /\ StartsWith(line, EntityTag)
                  /\ Len(toks) = NumMetrics + 2
                  /\ \A k \in 2..Len(toks) : IsNumeric(toks[k])
               THEN parsed = [i \in 1..NumMetrics |-> ParseF64(toks[i + 2])]
               ELSE parsed = NotASample
            /\ parsed # NotASample => Len(parsed) = NumMetrics

\* C2 witness: a line other than LineB with the field 0.25 was parsed into a record
C2_Witness ==
    /\ parsed # Unset
    /\ parsed # NotASample
    /\ \E i \in 1..NumMetrics : parsed[i] = Fin(250)
    /\ line # LineB

\* the loop has read exactly two lines: the header, then l
Fed(l) == nread = 2 /\ childOut[1] = HeaderLine /\ childOut[2] = l

RecordA == <<Fin(5 * Scale), Fin(10 * Scale)>> \o [k \in 1..(NumMetrics - 2) |-> Fin(0)]

\* C3 as stated: after the header and a sample line whose fields after "GPU 0"
\* are 5, 10, 0, 0, ... there is one record, it starts with 10, and value i is
\* in history buffer i
C3_Original ==
    (Fed(LineA) \/ Fed(LineLong)) =>
        /\ Len(accepted) = 1
        /\ accepted[1][1] = Fin(10 * Scale)
        /\ \A i \in 1..NumMetrics : history[i] = <<accepted[1][i]>>

\* C3 amended: after the header and the sample line whose NumMetrics fields
\* after "GPU 0" are 5, 10, 0, 0, ... the header is ignored and there is one
\* record, 5, 10, 0, 0, ...: no field after the tag is discarded (the discarded
\* leading field is the entity id, the second token of the tag), and value i is
\* in history buffer i
C3_HeaderThenSample ==
    Fed(LineA) =>
        /\ accepted = <<RecordA>>
        /\ \A i \in 1..NumMetrics : history[i] = <<RecordA[i]>>

\* C3 witness: the loop has read the header and then the sample line
C3_Witness == Fed(LineA) /\ pc = "render"

\* C4 as stated: every value of an accepted record, and every value in a
\* history buffer, is a finite number
C4_AllFinite ==
    /\ \A j \in 1..Len(accepted) : \A i \in 1..Len(accepted[j]) : IsFinite(accepted[j][i])
    /\ \A i \in 1..NumMetrics : \A j \in 1..Len(history[i]) : IsFinite(history[i][j])

\* C5 as stated: wherever the loop is, its next step can be taken, whatever the
\* producer does
C5_LoopNeverBlocks == pc \in LoopPcs => ENABLED MainStep(MaxTime)

\* C6: a frame is drawn only when the clock reading is at least delay after
\* last_tick, the timer is then set to a reading no earlier than the draw, two
\* successive draws start at least delay apart, and a gate that draws nothing
\* leaves the timer as it was
C6_RenderGate ==
    [][ /\ frames' # frames =>
             /\ drawnAt' - last_tick >= delay
             /\ last_tick' >= drawnAt'
             /\ drawnAt >= 0 => drawnAt' - drawnAt >= delay
        /\ (pc = "render" /\ frames' = frames) => last_tick' = last_tick ]_vars

\* C6 witness: with a positive interval, a second frame has been drawn
C6_Witness == delay > 0 /\ frames = 0 /\ drawnAt > 0 /\ pc = "poll"

RECURSIVE IsSubseq(_, _)
IsSubseq(a, b) ==
    IF a = <<>> THEN TRUE
    ELSE IF b = <<>> THEN FALSE
    ELSE IF Head(a) = Head(b) THEN IsSubseq(Tail(a), Tail(b))
    ELSE IsSubseq(a, Tail(b))

Rows(recs) == [k \in 1..Len(recs) |-> DataRow(recs[k])]

DataRows(file) == SelectSeq(file, LAMBDA r : r # HeaderRow)

\* C7: the data rows of the log file are, in order, rows of accepted records that
\* have left the queue; they are all of them, in order, when none was lost
C7_LogOrder ==
    LET W == DataRows(logfile)
        A == Rows(accepted)
    IN  /\ Len(chan) <= Len(A)
        /\ IsSubseq(W, SubSeq(A, 1, Len(A) - Len(chan)))
        /\ Len(W) + Len(chan) = Len(A) => W \o Rows(chan) = A

\* C7 witness: two different rows are in the file, after a rejected line was read
C7_Witness ==
    LET W == DataRows(logfile)
    IN  Len(W) = 2 /\ W[1] # W[2]

\* C8: with a line to read the ingest step, and then the render gate and the
\* quit poll, can be taken whatever the queue holds and wherever the logger is
C8_NoBackpressure ==
    /\ (pc = "read" /\ LineReady) => ENABLED Ingest
    /\ pc = "render" => ENABLED Render(LogMaxTime)
    /\ pc = "poll" => ENABLED Poll

\* C8 witness: the logger has not run yet, every record is queued, the loop is past the hand-off
C8_Witness == lpc = "create" /\ Len(chan) = MaxLogLines /\ pc = "poll"

\* C9 as stated: the main loop never runs after the log file failed to open
C9_OpenFailureAborts == lpc = "panicked" => pc \notin LoopPcs

\* C10 as stated: after a failed setup step the process has exited with raw mode
\* and the alternate screen both left
C10_SetupFailureRestores == pc = "setup_err" => (~rawMode /\ ~altScreen)

\* both interpolation indices are indices of sorted (counted from 0)
IndicesValid(sorted, pct) ==
    /\ 0 <= Low(sorted, pct)
    /\ Low(sorted, pct) <= High(sorted, pct)
    /\ High(sorted, pct) <= Len(sorted) - 1

\* C11 as stated: on the non-empty ascending copy of a buffer's positive
\* values, percentile at p is at most percentile at q whenever p <= q; the
\* p50, p90 and p99 of a frame are in this order; and floor(rank) and
\* ceil(rank) are both indices of the sequence
C11_PercentileMonotone ==
    (ret.fn = "stats" /\ ret.sorted # <<>>) =>
        /\ call.p <= call.q => Leq(ret.at_p, ret.at_q)
        /\ Leq(ret.stats[1], ret.stats[2])
        /\ Leq(ret.stats[2], ret.stats[3])
        /\ \A pct \in {call.p, call.q, 50, 90, 99} : IndicesValid(ret.sorted, pct)

\* s ends with t
EndsWith(s, t) == Len(s) >= Len(t) /\ SubSeq(s, Len(s) - Len(t) + 1, Len(s)) = t

UnitNames == << <<"B">>, <<"K", "B">>, <<"M", "B">>, <<"G", "B">>, <<"T", "B">> >>

\* 1024^k
Threshold(k) == Float(BShl(<<1>>, MantissaBits - 1), 10 * k - (MantissaBits - 1))

\* the largest k in 1..4 with 1024^k <= value, 0 when there is none
UnitRank(value) ==
    IF \E k \in 1..4 : Leq(Threshold(k), value)
    THEN CHOOSE k \in 1..4 : Leq(Threshold(k), value) /\ \A j \in (k + 1)..4 : ~Leq(Threshold(j), value)
    ELSE 0

PerSec(per_sec) == IF per_sec THEN <<"/", "s">> ELSE <<>>

\* C12 as stated: the text carries the largest unit among KB, MB, GB, TB whose
\* threshold is at most the value, else B; 1024 is "1.00 KB"; 1023.999 is in B
\* and is not "1024 B"
C12_UnitBoundaries ==
    ret.fn = "format" =>
        /\ EndsWith(ret.text, <<" ">> \o UnitNames[UnitRank(call.value) + 1] \o PerSec(call.per_sec))
        /\ (call.value = KB /\ ~call.per_sec) =>
               ret.text = <<"1", ".", "0", "0", " ", "K", "B">>
        /\ call.value = F64Of(1023999, Scale) =>
               /\ EndsWith(ret.text, <<" ", "B">> \o PerSec(call.per_sec))
               /\ ret.text # <<"1", "0", "2", "4", " ", "B">>

\* C13: of the events the poll reads only the key 'q' leaves the loop: after any
\* other event the history, the render timer and the logger queue are as they
\* were and the loop reads input again; the teardown is entered by the key 'q'
\* only; and when main() returns Ok(()) the terminal has left raw mode and the
\* alternate screen
C13_QuitKeyOnly ==
    /\ [][ /\ \A e \in Events \ {QuitKey} :
                PollEvent(e) => /\ pc' = "read"
                                /\ history' = history
                                /\ last_tick' = last_tick
                                /\ chan' = chan
           /\ (pc \in LoopPcs /\ pc' = "unraw") => PollEvent(QuitKey) ]_vars
    /\ [](pc = "exit_ok" => (~rawMode /\ ~altScreen))

\* C13 witness: main() has returned Ok(()) after a frame was drawn, with a
\* record still in the logger queue
C13_Witness == pc = "exit_ok" /\ drawnAt >= 0 /\ Len(chan) > 0

\* samples the logger thread has taken off the queue
Taken == IF lpc = "recv" THEN Len(accepted) - Len(chan) ELSE 0

\* a timestamp, then NumMetrics values
IsDataRow(r) == Len(r) = NumMetrics + 1 /\ r[1] = Timestamp /\ r # HeaderRow

HeaderCount(file) == Len(SelectSeq(file, LAMBDA r : r = HeaderRow))

\* C14 as stated: once the logger is past its header step the file holds the
\* header row exactly once, as its first row; every other row is a timestamp
\* followed by NumMetrics values; and there is one data row for every sample
\* taken off the queue
C14_Original ==
    /\ lpc = "recv" => (HeaderCount(logfile) = 1 /\ logfile[1] = HeaderRow)
    /\ \A k \in 2..Len(logfile) : IsDataRow(logfile[k])
    /\ Len(DataRows(logfile)) = Taken

\* C14 amended: the header is written at most once, and only as the first row
\* of the file (its write is attempted once, before any row, and a failure is
\* ignored); every other row is a timestamp followed by exactly NumMetrics
\* values; there is at most one data row per sample taken off the queue (a row
\* whose write fails is dropped); and when no write has failed the file is the
\* header followed by the rows of the samples taken, in order
C14_LogShape ==
    /\ HeaderCount(logfile) <= 1
    /\ \A k \in 1..Len(logfile) : logfile[k] = HeaderRow => k = 1
    /\ \A k \in 1..Len(logfile) : logfile[k] # HeaderRow => IsDataRow(logfile[k])
    /\ Len(DataRows(logfile)) <= Taken
    /\ lpc \in {"off", "create", "header", "panicked"} => logfile = <<>>
    /\ Len(logfile) = 1 + Taken =>
           logfile = <<HeaderRow>> \o Rows(SubSeq(accepted, 1, Taken))

\* C14 witness: the header and two different data rows are in the file
C14_Witness ==
    /\ Len(logfile) = 3
    /\ logfile[1] = HeaderRow
    /\ logfile[2] # logfile[3]
    /\ Taken = 2

\* the lines of the claim: blank, header, wrong prefix, wrong field count, a
\* field that is no number
Malformed == {BlankLine, HeaderLine, LineOtherGpu, LineLong, LineWord}

\* C15: the step that reads a malformed or non-sample line leaves every
\* history buffer and the logger queue as they were and accepts no record, and
\* main() goes on to the render gate, which can then be taken, as can the quit
\* poll after it
C15_MalformedDropped ==
    /\ [][ (nread' = nread + 1 /\ childOut[nread + 1] \in Malformed) =>
               /\ history' = history
               /\ chan' = chan
               /\ accepted' = accepted
               /\ pc' = "render" ]_vars
    /\ [](pc = "render" => ENABLED Render(LogMaxTime))
    /\ [](pc = "poll" => ENABLED Poll)

\* C15 witness: a malformed line was read after a sample, whose record is
\* still in the history and in the logger queue, and the loop is at the quit poll
C15_Witness ==
    /\ nread = 2
    /\ childOut[1] = LineA
    /\ childOut[2] \in Malformed
    /\ history[1] = <<Fin(5 * Scale)>>
    /\ chan = <<RecordA>>
    /\ pc = "poll"

\* C16 as stated: the step that leaves the read for the render gate has read
\* every line that was available
C16_Original == [][(pc = "read" /\ pc' = "render") => nread' = Len(childOut)]_vars

\* C16 amended: an iteration reads at most one line before the render gate,
\* exactly one when a line is available, and leaves the others for later
\* iterations; the record of that line, when it parses, is pushed into the
\* history and forwarded to the logger while the logger lives
C16_OneLinePerIteration ==
    [][ (pc = "read" /\ pc' # "read") =>
            /\ nread' = IF nread < Len(childOut) THEN nread + 1 ELSE nread
            /\ nread' = nread + 1 =>
                   \A rec \in {parse_metric_line(childOut[nread + 1])} \ {NotASample} :
                       /\ accepted' = Append(accepted, rec)
                       /\ \A i \in 1..NumMetrics :
                              /\ history'[i] # <<>>
                              /\ history'[i][Len(history'[i])] = rec[i]
                       /\ lpc \in {"create", "header", "recv"} => chan' = Append(chan, rec) ]_vars

\* C16 witness: the render gate is reached with one line read, its record
\* queued for the logger, and a sample that was written before still unread
C16_Witness ==
    /\ pc = "render"
    /\ nread = 1
    /\ Len(childOut) = 2
    /\ childOut[2] \in {LineA, LineB}
    /\ Len(chan) = 1

\* the lines of the feed that are samples
Samples == {LineA, LineNaN}

\* how many of the first n lines written are samples
RECURSIVE SamplesIn(_, _)
SamplesIn(out, n) ==
    IF n = 0 THEN 0
    ELSE SamplesIn(out, n - 1) + (IF out[n] \in Samples THEN 1 ELSE 0)

\* C17: the render gate is reached only from the read of the same iteration and
\* a frame is drawn only at the gate; the read of a sample pushes its record
\* whether or not the gate then draws; the records pushed are as many as the
\* sample lines read, whatever the number of frames; and a frame is drawn from
\* buffers that end with the latest record read
C17_IngestBeforeRender ==
    /\ [][ /\ (pc' = "render" /\ pc # "render") => (pc = "read" /\ nread' >= nread)
           /\ frames' # frames => pc = "render"
           /\ (nread' = nread + 1 /\ childOut[nread + 1] \in Samples) =>
                  /\ Len(accepted') = Len(accepted) + 1
                  /\ \A i \in 1..NumMetrics :
                         history'[i][Len(history'[i])] = accepted'[Len(accepted')][i]
           /\ frames' # frames =>
                  /\ screen' = history
                  /\ accepted # <<>> =>
                         \A i \in 1..NumMetrics :
                             screen'[i][Len(screen'[i])] = accepted[Len(accepted)][i] ]_vars
    /\ [](Len(accepted) = SamplesIn(childOut, nread))

\* C17 witness: with a positive interval a frame was drawn, and a sample read
\* after it is in the history with no frame drawn for it
C17_Witness ==
    /\ pc = "poll"
    /\ delay > 0
    /\ screen # <<>>
    /\ Len(screen[1]) = 1
    /\ Len(history[1]) = 2
    /\ Len(accepted) = 2

\* the logger thread has ended: File::create failed and the thread panicked
LoggerGone == lpc = "panicked"

\* C18: once the logger thread has ended, the read of a sample queues nothing,
\* pushes the record into all NumMetrics buffers and goes on to the render
\* gate, and the read, the gate and the quit poll can be taken as in a run
\* without a logger; and a row write that fails leaves the logger thread at its
\* receive, where it can take the next record
C18_LoggerFailureIgnored ==
    /\ [][ /\ (LoggerGone /\ nread' = nread + 1 /\ childOut[nread + 1] \in {LineA, LineB}) =>
                  /\ chan' = chan
                  /\ accepted' = Append(accepted, parse_metric_line(childOut[nread + 1]))
                  /\ \A i \in 1..NumMetrics :
                         history'[i][Len(history'[i])] = accepted'[Len(accepted')][i]
                  /\ pc' = "render"
           /\ (lpc = "recv" /\ Len(chan') < Len(chan)) => lpc' = "recv" ]_vars
    /\ [](LoggerGone => /\ chan = <<>>
                        /\ logfile = <<>>
                        /\ (pc = "read" /\ LineReady) => ENABLED Ingest
                        /\ pc = "render" => ENABLED Render(LogMaxTime)
                        /\ pc = "poll" => ENABLED Poll)
    /\ []((Running /\ lpc = "recv" /\ chan # <<>>) => ENABLED LoggerWrite)

\* C18 witness: after the logger thread ended two samples were read and
\* pushed, nothing is queued, a frame was drawn and the loop is at the quit poll
C18_Witness ==
    /\ LoggerGone
    /\ Len(accepted) = 2
    /\ Len(history[NumMetrics]) = 2
    /\ chan = <<>>
    /\ drawnAt >= 0
    /\ pc = "poll"

\* a number above zero: not NaN, not zero, not negative
StrictlyPositive(x) == x.cls \in {"fin", "inf"} /\ x.v > 0

\* how many times x is in s
Count(s, x) == Cardinality({k \in 1..Len(s) : s[k] = x})

\* t holds the strictly positive values of s, each as often as s does, and
\* nothing else, in ascending order
IsSortedPositiveCopy(t, s) ==
    /\ \A k \in 1..Len(t) : StrictlyPositive(t[k]) /\ Count(t, t[k]) = Count(s, t[k])
    /\ \A k \in 1..Len(s) : StrictlyPositive(s[k]) => Count(t, s[k]) = Count(s, s[k])
    /\ \A k \in 1..(Len(t) - 1) : ~Less(t[k + 1], t[k])

ZeroPercent == <<"0", ".", "0", "%">>

ZeroBytes(per_sec) == <<"0", " ", "B">> \o PerSec(per_sec)

\* the statistics text of metric i when p50 and p90 are both 0
ZeroStats(i) ==
    IF i \in 8..11 THEN Chars_p50 \o ZeroBytes(TRUE) \o <<",">> \o Chars_p90 \o ZeroBytes(TRUE)
    ELSE IF i = NumMetrics
    THEN Chars_p50 \o ZeroBytes(FALSE) \o <<",">> \o Chars_p90 \o ZeroBytes(FALSE)
    ELSE Chars_p50 \o ZeroPercent \o <<" ">> \o Chars_p90 \o ZeroPercent

\* what a frame drawn from the buffers h shows: one label for every position of
\* each buffer, the bar of a zero, negative or NaN sample being 0 under the
\* label of its position; percentiles taken from an ascending copy of the
\* strictly positive values; and with no strictly positive value p50 and p90
\* are 0 and shown as 0
FrameFacts(h) ==
    \A i \in 1..NumMetrics :
        /\ DOMAIN Labels(h[i]) = DOMAIN h[i]
        /\ \A j \in 1..Len(h[i]) :
               ~StrictlyPositive(h[i][j]) => BarData(h[i])[j] = <<NatToStr(j - 1), <<>> >>
        /\ IsSortedPositiveCopy(Sorted(h[i]), h[i])
        /\ (\A j \in 1..Len(h[i]) : ~StrictlyPositive(h[i][j])) =>
               /\ Percentiles(h[i])[1] = FZero
               /\ Percentiles(h[i])[2] = FZero
               /\ StatsText(i, h[i]) = ZeroStats(i)

\* C19: the render gate and the draw leave the history as it was, and every
\* frame is drawn from the history as it is then: its bars are 0 at the
\* positions of zero, negative and NaN samples, its percentiles come from the
\* sorted strictly positive values, and they are 0 when there is none
C19_RedrawReadsOnly ==
    /\ [][pc = "render" => history' = history]_vars
    /\ [][frames' # frames => (screen' = history' /\ FrameFacts(screen'))]_vars

\* C19 witness: a frame was drawn from buffers that hold a zero and then a
\* negative sample for one metric and a positive sample and then NaN for another
C19_Witness ==
    /\ screen # <<>>
    /\ screen[3] = <<Fin(0), Fin(-3 * Scale)>>
    /\ screen[1] = <<Fin(5 * Scale), NaN>>
    /\ history = screen
    /\ pc = "poll"

\* the sample that position j of the buffers belongs to, counted among the
\* accepted records
SampleAt(j) == Len(accepted) - Min(HISTORY_LEN, Len(accepted)) + j

\* C20: every accepted record has NumMetrics values and no push has indexed
\* outside the history table; all buffers have the same length, the smaller of
\* HISTORY_LEN and the number of accepted records; position j of every buffer i
\* holds field i of one and the same accepted record; and a step that changes
\* the history pushes one value of the newest record into every buffer
C20_BuffersAligned ==
    /\ [](pc # "panic")
    /\ [](\A k \in 1..Len(accepted) : Len(accepted[k]) = NumMetrics)
    /\ [](\A i \in 1..NumMetrics : Len(history[i]) = Min(HISTORY_LEN, Len(accepted)))
    /\ [](\A j \in 1..Min(HISTORY_LEN, Len(accepted)) :
             \A i \in 1..NumMetrics : history[i][j] = accepted[SampleAt(j)][i])
    /\ [][history' # history =>
             /\ Len(accepted') = Len(accepted) + 1
             /\ \A i \in 1..NumMetrics :
                    history'[i] = Push(history[i], accepted'[Len(accepted')][i])]_vars

\* C20 witness: the full buffers have evicted the oldest record, the records
\* kept differ from each other, and two buffers hold different values
C20_Witness ==
    /\ Len(accepted) = HISTORY_LEN + 1
    /\ accepted[Len(accepted)] # accepted[Len(accepted) - 1]
    /\ accepted[1] # accepted[2]
    /\ history[1] # history[2]
    /\ Len(history[NumMetrics]) = HISTORY_LEN

====
